---------------------------- MODULE Spec2Model ----------------------------
(***************************************************************************)
(* A model of llms_checker.py: the URL helpers (normalize_domain,          *)
(* build_llms_url), the per-domain probe (check_single_domain), the input  *)
(* loaders, the reporters and main.                                        *)
(*                                                                         *)
(* Strings are sequences of one-character strings.  None is the empty      *)
(* sequence <<>> and a present optional value v is <<v>>.                  *)
(***************************************************************************)
EXTENDS Integers, Sequences, FiniteSets, TLC

\* Longest body of an input string of the URL helpers (after the optional scheme).
MaxLen == 3
\* Most lines (text) or data rows (CSV) of an input file.
MaxLines == 3

VARIABLES
    \* --- one call of the helpers and of check_single_domain on its own ---
    inp,        \* the string handed to normalize_domain / check_single_domain
    base,       \* <<>> before normalize_domain ran, <<its result>> after
    probe,      \* <<>> before build_llms_url ran, <<its outcome>> after
    res,        \* <<>> before check_single_domain ran, <<its outcome>> after
    \* --- a run of main ---
    pc,         \* position of main
    argv,       \* the command line: [ok, input_format, output_csv]
    file,       \* the input file: [kind, lines, fieldnames, cells]
    domains,    \* main's local `domains`
    idx,        \* position of `for d in domains`
    inflight,   \* the requests urlopen has been called with and not returned from
    requests,   \* log of urlopen calls: <<[index, url]>>
    results,    \* main's local `results`
    summary,    \* <<>> or <<what print_summary printed>>
    csvFile,    \* <<>> or <<the rows write_csv wrote>>
    stderr,     \* messages printed to standard error
    exitStatus  \* <<>> while running, <<status>> after the process ended

unitVars == <<inp, base, probe, res>>
mainVars == <<pc, argv, file, domains, idx, inflight, requests, results,
              summary, csvFile, stderr, exitStatus>>
vars == <<inp, base, probe, res, pc, argv, file, domains, idx, inflight,
          requests, results, summary, csvFile, stderr, exitStatus>>

---------------------------------------------------------------------------
(* Strings *)

Str(n, S) == UNION {[1..k -> S] : k \in 0..n}

SLASH == "/"
SPACE == " "
HTTP_PREFIX == <<"h", "t", "t", "p", ":", "/", "/">>
HTTPS_PREFIX == <<"h", "t", "t", "p", "s", ":", "/", "/">>
LLMS_TXT == <<"/", "l", "l", "m", "s", ".", "t", "x", "t">>

\* s.startswith(p)
StartsWith(s, p) == Len(s) >= Len(p) /\ SubSeq(s, 1, Len(p)) = p

\* c in s
Contains(s, c) == \E i \in 1..Len(s) : s[i] = c

\* s.find(c, start) with 1-based positions; 0 when c is not found
Find(s, c, start) ==
    LET hits == {i \in start..Len(s) : s[i] = c}
    IN  IF hits = {} THEN 0 ELSE CHOOSE i \in hits : \A j \in hits : i <= j

\* s.rfind(c) with 1-based positions; 0 when c is not found
RFind(s, c) ==
    LET hits == {i \in 1..Len(s) : s[i] = c}
    IN  IF hits = {} THEN 0 ELSE CHOOSE i \in hits : \A j \in hits : i >= j

\* s[i:] of Python for the 1-based position i of its first kept character
From(s, i) == SubSeq(s, i, Len(s))

RECURSIVE LStrip(_, _)
\* s.lstrip(c)
LStrip(s, c) == IF s # <<>> /\ Head(s) = c THEN LStrip(Tail(s), c) ELSE s

RECURSIVE RStrip(_, _)
\* s.rstrip(c)
RStrip(s, c) ==
    IF s # <<>> /\ s[Len(s)] = c THEN RStrip(SubSeq(s, 1, Len(s) - 1), c) ELSE s

\* s.strip(): the only whitespace of the model's alphabet is the space
Strip(s) == RStrip(LStrip(s, SPACE), SPACE)

---------------------------------------------------------------------------
(* normalize_domain: lines 20-34 *)

\* A slip of normalize_domain: only one trailing "/" is removed.
normalize_domain_one_slash(domain) ==
    LET d == Strip(domain)
        cut == IF d # <<>> /\ d[Len(d)] = SLASH THEN SubSeq(d, 1, Len(d) - 1) ELSE d
    IN  IF d = <<>> THEN <<>>
        ELSE IF StartsWith(d, HTTP_PREFIX) \/ StartsWith(d, HTTPS_PREFIX)
             THEN cut
             ELSE HTTPS_PREFIX \o cut

normalize_domain(domain) ==
    LET d == Strip(domain)
    IN  IF d = <<>> THEN <<>>
        ELSE IF StartsWith(d, HTTP_PREFIX) \/ StartsWith(d, HTTPS_PREFIX)
             THEN RStrip(d, SLASH)
             ELSE HTTPS_PREFIX \o RStrip(d, SLASH)

---------------------------------------------------------------------------
(* urllib.parse as build_llms_url uses it.  The model's alphabet has no   *)
(* upper-case letter, tab, CR or LF, so scheme.lower() and the removal of  *)
(* unsafe bytes change nothing; it has no "]", so a netloc holding "[" is  *)
(* always the unbalanced case.                                             *)

ALPHA == {"a", "b", "c", "d", "e", "f", "g", "h", "i", "j", "k", "l", "m",
          "n", "o", "p", "q", "r", "s", "t", "u", "v", "w", "x", "y", "z"}
SCHEME_CHARS == ALPHA \cup {"0", "1", "2", "3", "4", "5", "6", "7", "8", "9",
                            "+", "-", "."}
\* uses_netloc and uses_params both list http and https
USES_NETLOC == {<<>>, <<"h", "t", "t", "p">>, <<"h", "t", "t", "p", "s">>}
USES_PARAMS == {<<>>, <<"h", "t", "t", "p">>, <<"h", "t", "t", "p", "s">>}

\* _splitnetloc(url, 2): the netloc ends at the first of "/", "?", "#"
splitnetloc(url) ==
    LET ds == {i \in 3..Len(url) : url[i] \in {"/", "?", "#"}}
        delim == IF ds = {} THEN Len(url) + 1
                 ELSE CHOOSE i \in ds : \A j \in ds : i <= j
    IN  [netloc |-> SubSeq(url, 3, delim - 1), rest |-> From(url, delim)]

\* urlsplit, last part: the fragment and then the query are cut off the rest
SplitQuery(scheme, netloc, raised, u3, fragment) ==
    LET q == Find(u3, "?", 1)
    IN  [raised |-> raised, scheme |-> scheme, netloc |-> netloc,
         path |-> IF q > 0 THEN SubSeq(u3, 1, q - 1) ELSE u3,
         query |-> IF q > 0 THEN From(u3, q + 1) ELSE <<>>,
         fragment |-> fragment]

SplitFragment(scheme, netloc, raised, u2) ==
    LET h == Find(u2, "#", 1)
    IN  SplitQuery(scheme, netloc, raised,
                   IF h > 0 THEN SubSeq(u2, 1, h - 1) ELSE u2,
                   IF h > 0 THEN From(u2, h + 1) ELSE <<>>)

\* urlsplit, the bracket check of the netloc: ValueError("Invalid IPv6 URL")
InvalidIPv6(netloc) ==
    \/ Contains(netloc, "[") /\ ~Contains(netloc, "]")
    \/ Contains(netloc, "]") /\ ~Contains(netloc, "[")

\* urlsplit, middle part: url[:2] == '//' starts a netloc
SplitNetloc(scheme, u1) ==
    IF Len(u1) >= 2 /\ SubSeq(u1, 1, 2) = <<"/", "/">>
    THEN SplitFragment(scheme, splitnetloc(u1).netloc,
                       InvalidIPv6(splitnetloc(u1).netloc), splitnetloc(u1).rest)
    ELSE SplitFragment(scheme, <<>>, FALSE, u1)

\* urlsplit, first part: the position of the ":" that ends a scheme, or 0
SchemeEnd(url) ==
    LET i == Find(url, ":", 1)
    IN  IF /\ i > 1
           /\ url[1] \in ALPHA
           /\ \A k \in 1..(i - 1) : url[k] \in SCHEME_CHARS
        THEN i ELSE 0

\* urlsplit(url): [raised, scheme, netloc, path, query, fragment], raised when it
\* raises ValueError
urlsplit(url) ==
    IF SchemeEnd(url) > 0
    THEN SplitNetloc(SubSeq(url, 1, SchemeEnd(url) - 1), From(url, SchemeEnd(url) + 1))
    ELSE SplitNetloc(<<>>, url)

\* _splitparams(url), called when ";" is in url
splitparams(url) ==
    LET i == IF Contains(url, "/") THEN Find(url, ";", RFind(url, "/"))
             ELSE Find(url, ";", 1)
    IN  IF i = 0 THEN [path |-> url, params |-> <<>>]
        ELSE [path |-> SubSeq(url, 1, i - 1), params |-> From(url, i + 1)]

\* urlparse, after its call of urlsplit
ParseParams(sp) ==
    IF sp.scheme \in USES_PARAMS /\ Contains(sp.path, ";")
    THEN [raised |-> sp.raised, scheme |-> sp.scheme, netloc |-> sp.netloc,
          path |-> splitparams(sp.path).path, params |-> splitparams(sp.path).params,
          query |-> sp.query, fragment |-> sp.fragment]
    ELSE [raised |-> sp.raised, scheme |-> sp.scheme, netloc |-> sp.netloc,
          path |-> sp.path, params |-> <<>>,
          query |-> sp.query, fragment |-> sp.fragment]

urlparse(url) == ParseParams(urlsplit(url))

urlunsplit(scheme, netloc, url, query, fragment) ==
    LET withNetloc ==
            \/ netloc # <<>>
            \/ /\ scheme # <<>>
               /\ scheme \in USES_NETLOC
               /\ ~(Len(url) >= 2 /\ SubSeq(url, 1, 2) = <<"/", "/">>)
        u1 == IF withNetloc
              THEN <<"/", "/">> \o netloc
                   \o (IF url # <<>> /\ url[1] # "/" THEN <<"/">> \o url ELSE url)
              ELSE url
        u2 == IF scheme # <<>> THEN scheme \o <<":">> \o u1 ELSE u1
        u3 == IF query # <<>> THEN u2 \o <<"?">> \o query ELSE u2
    IN  IF fragment # <<>> THEN u3 \o <<"#">> \o fragment ELSE u3

urlunparse(p) ==
    urlunsplit(p.scheme, p.netloc,
               IF p.params # <<>> THEN p.path \o <<";">> \o p.params ELSE p.path,
               p.query, p.fragment)

---------------------------------------------------------------------------
(* build_llms_url: lines 37-44.  The outcome is [raised, url]: urlparse's  *)
(* ValueError leaves build_llms_url.                                       *)

\* lines 42-43: the path of the probe URL
LlmsPath(path) ==
    IF RStrip(path, SLASH) # <<>> THEN RStrip(path, SLASH) \o LLMS_TXT ELSE LLMS_TXT

\* A line 44 that rebuilds the URL from scheme, netloc and path alone.
ReplacePathDropQuery(parsed) ==
    IF parsed.raised THEN [raised |-> TRUE, url |-> <<>>]
    ELSE [raised |-> FALSE,
          url |-> urlunsplit(parsed.scheme, parsed.netloc, LlmsPath(parsed.path),
                             <<>>, <<>>)]

\* lines 42-44: urlunparse(parsed._replace(path=path))
ReplacePath(parsed) ==
    IF parsed.raised THEN [raised |-> TRUE, url |-> <<>>]
    ELSE [raised |-> FALSE,
          url |-> urlunparse([parsed EXCEPT !.path = LlmsPath(parsed.path)])]

build_llms_url(base_url) == ReplacePath(urlparse(base_url))

\* Request(llms_url, ...) of line 64: its constructor calls request_host, which
\* calls urlparse(full_url) and lets its ValueError through.
RequestRaises(llms_url) == urlparse(llms_url).raised

---------------------------------------------------------------------------
(* check_single_domain: lines 47-103 *)

\* What urlopen(req, timeout=timeout) of line 66 can do.  urllib's default opener
\* returns a response only for a status in [200,300) (HTTPErrorProcessor hands
\* every other status to the error handlers, which follow a redirect or raise
\* HTTPError), or a response without a status (a redirect to ftp:), and otherwise
\* raises HTTPError, URLError or another exception (InvalidURL, a read timeout).
Responses == {[kind |-> "response", status |-> <<c>>] : c \in {200, 204, 299}}
             \cup {[kind |-> "response", status |-> <<>>]}
HTTPErrors == {[kind |-> "HTTPError", status |-> <<c>>] : c \in {199, 300, 404, 500}}
Failures == {[kind |-> "URLError", status |-> <<>>],
             [kind |-> "Exception", status |-> <<>>]}
Outcomes == Responses \cup HTTPErrors \cup Failures

DomainCheckResult(domain, url_checked, has_llms_txt, http_status, error) ==
    [domain |-> domain, url_checked |-> url_checked, has_llms_txt |-> has_llms_txt,
     http_status |-> http_status, error |-> error]

\* 200 <= status < 300 without its upper bound
In2xxNoUpper(status) == 200 <= status

\* 200 <= status < 300 of lines 69 and 80
In2xx(status) == 200 <= status /\ status < 300

\* An except HTTPError branch that never sets error.
HTTPErrorTextNone(o) == <<>>

\* error of the except HTTPError branch, line 86: str(e) if not has_llms else None
HTTPErrorText(o) == IF ~In2xx(o.status[1]) THEN <<"http_error">> ELSE <<>>

\* The try statement of lines 65-103 for the outcome o of urlopen.  A response
\* without a status makes line 69 raise TypeError, which the last handler takes.
ClassifyOutcome(domain, llms_url, o) ==
    CASE o.kind = "response" /\ o.status # <<>> ->
            DomainCheckResult(domain, llms_url, In2xx(o.status[1]), o.status, <<>>)
      [] o.kind = "HTTPError" ->
            DomainCheckResult(domain, llms_url, In2xx(o.status[1]), o.status,
                              HTTPErrorText(o))
      [] o.kind = "URLError" ->
            DomainCheckResult(domain, llms_url, FALSE, <<>>, <<"url_error_reason">>)
      [] OTHER ->
            DomainCheckResult(domain, llms_url, FALSE, <<>>, <<"exception">>)

\* The result of line 54 for an empty base URL
EmptyDomainResult(domain) ==
    DomainCheckResult(domain, <<>>, FALSE, <<>>, <<"empty_domain">>)

\* lines 62-64, for a base URL that is not empty
BuildAndRequest(built) ==
    IF built.raised THEN [step |-> "raise", url |-> <<>>]
    ELSE IF RequestRaises(built.url) THEN [step |-> "raise", url |-> built.url]
    ELSE [step |-> "open", url |-> built.url]

\* lines 53-64, for the base URL of line 52
AfterNormalize(base_url) ==
    IF base_url = <<>> THEN [step |-> "empty", url |-> <<>>]
    ELSE BuildAndRequest(build_llms_url(base_url))

\* Lines 52-64: what check_single_domain does before it calls urlopen:
\* "empty" (it returns line 54's result), "raise" (a ValueError of line 62 or 64
\* leaves it: neither line is inside the try) or "open" (it calls urlopen on url).
BeforeUrlopen(domain) == AfterNormalize(normalize_domain(domain))

\* check_single_domain once BeforeUrlopen has given b
CheckFrom(domain, b, o) ==
    CASE b.step = "empty" -> [raised |-> FALSE, result |-> <<EmptyDomainResult(domain)>>]
      [] b.step = "raise" -> [raised |-> TRUE, result |-> <<>>]
      [] OTHER -> [raised |-> FALSE,
                   result |-> <<ClassifyOutcome(domain, b.url, o)>>]

\* check_single_domain(domain) when urlopen, if called, does o:
\* [raised |-> TRUE] when an exception leaves the function.
check_single_domain(domain, o) == CheckFrom(domain, BeforeUrlopen(domain), o)

---------------------------------------------------------------------------
(* The helpers and check_single_domain, each called on its own on every    *)
(* string of the bounded input set.                                        *)

UnitAlphabet == {"a", "/", "?", "#", ";", " ", "["}
UnitInputs == {p \o b : p \in {<<>>, HTTP_PREFIX, HTTPS_PREFIX},
                        b \in Str(MaxLen, UnitAlphabet)}

MainIdle ==
    /\ pc = "idle"
    /\ argv = [ok |-> TRUE, input_format |-> "text", output_csv |-> FALSE]
    /\ file = [kind |-> "missing", lines |-> <<>>, fieldnames |-> <<>>, cells |-> <<>>]
    /\ domains = <<>>
    /\ idx = 1
    /\ inflight = <<>>
    /\ requests = <<>>
    /\ results = <<>>
    /\ summary = <<>>
    /\ csvFile = <<>>
    /\ stderr = <<>>
    /\ exitStatus = <<>>

UnitInit ==
    /\ inp \in UnitInputs
    /\ base = <<>>
    /\ probe = <<>>
    /\ res = <<>>
    /\ MainIdle

UnitNormalize ==
    /\ pc = "idle"
    /\ base = <<>>
    /\ base' = <<normalize_domain(inp)>>
    /\ UNCHANGED <<inp, probe, res>>
    /\ UNCHANGED mainVars

UnitBuild ==
    /\ pc = "idle"
    /\ base # <<>>
    /\ base[1] # <<>>
    /\ probe = <<>>
    /\ probe' = <<build_llms_url(base[1])>>
    /\ UNCHANGED <<inp, base, res>>
    /\ UNCHANGED mainVars

UnitCheck ==
    /\ pc = "idle"
    /\ base # <<>>
    /\ base[1] = <<>> \/ probe # <<>>
    /\ res = <<>>
    /\ \E o \in Outcomes : res' = <<check_single_domain(inp, o)>>
    /\ UNCHANGED <<inp, base, probe>>
    /\ UNCHANGED mainVars

UnitNext == UnitNormalize \/ UnitBuild \/ UnitCheck

SpecUnit == UnitInit /\ [][UnitNext]_vars

---------------------------------------------------------------------------
(* The input loaders: lines 106-140 *)

\* load_domains without the test for a comment line
SkippedLineNoComment(raw) == raw = <<>>

\* line 115: not raw or raw.startswith("#")
SkippedLine(raw) == raw = <<>> \/ raw[1] = "#"

StripAll(ss) == [i \in 1..Len(ss) |-> Strip(ss[i])]

\* load_domains(path) on a file that opens and decodes, given its lines
load_domains(lines) ==
    SelectSeq(StripAll(lines), LAMBDA raw : ~SkippedLine(raw))

\* --domain-column, by default "domain"
DomainColumn == "domain"

\* line 136: (row.get(domain_column) or "").strip(); a short row's cell is None
CellText(cell) == IF cell = <<>> THEN <<>> ELSE Strip(cell[1])

\* load_domains_from_csv(path, domain_column) on a file that opens and decodes,
\* given the header's field names and each data row's cell in the domain column
load_domains_from_csv(fieldnames, cells) ==
    IF ~(\E i \in 1..Len(fieldnames) : fieldnames[i] = DomainColumn)
    THEN [raised |-> TRUE, domains |-> <<>>]
    ELSE [raised |-> FALSE,
          domains |-> SelectSeq([i \in 1..Len(cells) |-> CellText(cells[i])],
                                LAMBDA raw : raw # <<>>)]

\* Lines 236-246 of main: the try around the loader.
\* error is "not_found" (FileNotFoundError), "read_error" (any other exception) or "none".
LoadInput(args, f) ==
    IF f.kind = "missing" THEN [error |-> "not_found", domains |-> <<>>]
    ELSE IF f.kind = "unreadable" THEN [error |-> "read_error", domains |-> <<>>]
    ELSE IF args.input_format = "csv"
         THEN IF load_domains_from_csv(f.fieldnames, f.cells).raised
              THEN [error |-> "read_error", domains |-> <<>>]
              ELSE [error |-> "none",
                    domains |-> load_domains_from_csv(f.fieldnames, f.cells).domains]
         ELSE [error |-> "none", domains |-> load_domains(f.lines)]

---------------------------------------------------------------------------
(* The reporters: lines 143-190 *)

\* "yes"/"no" the wrong way round
YesNoSwapped(has_llms_txt) == IF has_llms_txt THEN "no" ELSE "yes"

\* line 158
YesNo(has_llms_txt) == IF has_llms_txt THEN "yes" ELSE "no"

\* write_csv(results, output_path) on a path that opens: the rows handed to
\* csv.writer.writerow, in the order written
write_csv(rs) ==
    <<<<"domain", "contains_llms_txt">>>>
    \o [i \in 1..Len(rs) |-> <<rs[i].domain, YesNo(rs[i].has_llms_txt)>>]

\* print_summary(results): the three counts, the line of each result, and the
\* trailing list of failed domains
print_summary(rs) ==
    LET failed == SelectSeq(rs, LAMBDA r : r.error # <<>> /\ r.http_status = <<>>)
    IN  [total |-> Len(rs),
         with_llms |-> Cardinality({i \in 1..Len(rs) : rs[i].has_llms_txt}),
         failed_count |-> Len(failed),
         lines |-> [i \in 1..Len(rs) |->
                      [domain |-> rs[i].domain,
                       status_str |-> IF rs[i].has_llms_txt THEN "YES" ELSE "NO",
                       extra |-> IF rs[i].http_status # <<>>
                                 THEN <<"HTTP", rs[i].http_status[1]>>
                                 ELSE IF rs[i].error # <<>>
                                      THEN <<"error", rs[i].error[1]>>
                                      ELSE <<>>]],
         failed |-> [i \in 1..Len(failed) |->
                       [domain |-> failed[i].domain, error |-> failed[i].error[1]]]]

---------------------------------------------------------------------------
(* main: lines 233-265 *)

TextLines == {<<>>, <<" ", "#", "a">>, <<"a", " ">>, <<"[">>, <<"b", "?", "q">>}
\* the header row of a CSV file; an empty file has no header and no row
CsvHeaders == {<<>>, <<"name">>, <<"name", "domain">>}
CsvCells == {<<>>, <<<<" ">>>>, <<<<" ", "a">>>>, <<<<"[">>>>}

InputFiles ==
    {[kind |-> k, lines |-> <<>>, fieldnames |-> <<>>, cells |-> <<>>] :
        k \in {"missing", "unreadable"}}
    \cup {[kind |-> "ok", lines |-> ls, fieldnames |-> <<>>, cells |-> <<>>] :
            ls \in Str(MaxLines, TextLines)}
    \cup {[kind |-> "ok", lines |-> <<>>, fieldnames |-> h, cells |-> cs] :
            h \in CsvHeaders \ {<<>>}, cs \in Str(MaxLines, CsvCells)}
    \cup {[kind |-> "ok", lines |-> <<>>, fieldnames |-> <<>>, cells |-> <<>>]}

UnitIdle ==
    /\ inp = <<>>
    /\ base = <<>>
    /\ probe = <<>>
    /\ res = <<>>

Init ==
    /\ UnitIdle
    /\ pc = "start"
    /\ argv \in [ok : BOOLEAN, input_format : {"text", "csv"}, output_csv : BOOLEAN]
    /\ file \in InputFiles
    /\ argv.input_format = "text" => file.fieldnames = <<>> /\ file.cells = <<>>
    /\ argv.input_format = "csv" => file.lines = <<>>
    /\ domains = <<>>
    /\ idx = 1
    /\ inflight = <<>>
    /\ requests = <<>>
    /\ results = <<>>
    /\ summary = <<>>
    /\ csvFile = <<>>
    /\ stderr = <<>>
    /\ exitStatus = <<>>

\* line 234: argparse ends the process with status 2 on a command line it rejects
ParseArgs ==
    /\ pc = "start"
    /\ IF argv.ok
       THEN pc' = "load" /\ UNCHANGED <<stderr, exitStatus>>
       ELSE /\ pc' = "exited"
            /\ stderr' = Append(stderr, "usage")
            /\ exitStatus' = <<2>>
    /\ UNCHANGED <<argv, file, domains, idx, inflight, requests, results, summary, csvFile>>
    /\ UNCHANGED unitVars

\* lines 236-250
Load ==
    /\ pc = "load"
    /\ LET l == LoadInput(argv, file)
       IN  IF l.error = "not_found"
           THEN /\ stderr' = Append(stderr, "Input file not found")
                /\ exitStatus' = <<1>>
                /\ pc' = "exited"
                /\ UNCHANGED domains
           ELSE IF l.error = "read_error"
           THEN /\ stderr' = Append(stderr, "Error reading input file")
                /\ exitStatus' = <<1>>
                /\ pc' = "exited"
                /\ UNCHANGED domains
           ELSE IF l.domains = <<>>
           THEN /\ stderr' = Append(stderr, "No domains found in the input file.")
                /\ exitStatus' = <<1>>
                /\ pc' = "exited"
                /\ domains' = l.domains
           ELSE /\ domains' = l.domains
                /\ pc' = "loop"
                /\ UNCHANGED <<stderr, exitStatus>>
    /\ UNCHANGED <<argv, file, idx, inflight, requests, results, summary, csvFile>>
    /\ UNCHANGED unitVars

\* A loop that ends one domain early
LoopDoneEarly(i, ds) == i >= Len(ds)

\* line 253: `for d in domains` has no domain left
LoopDone(i, ds) == i > Len(ds)

\* lines 253-254 and 52-66: the loop takes the next domain and check_single_domain
\* runs up to its call of urlopen.  A ValueError of line 62 or 64 is caught
\* nowhere: the interpreter prints the traceback and ends with status 1.
CallCheck ==
    /\ pc = "loop"
    /\ ~LoopDone(idx, domains)
    /\ LET b == BeforeUrlopen(domains[idx])
       IN  CASE b.step = "empty" ->
                   /\ results' = Append(results, EmptyDomainResult(domains[idx]))
                   /\ idx' = idx + 1
                   /\ UNCHANGED <<pc, inflight, requests, stderr, exitStatus>>
             [] b.step = "raise" ->
                   /\ stderr' = Append(stderr, "Traceback")
                   /\ exitStatus' = <<1>>
                   /\ pc' = "exited"
                   /\ UNCHANGED <<results, idx, inflight, requests>>
             [] OTHER ->
                   /\ inflight' = Append(inflight, [index |-> idx, url |-> b.url])
                   /\ requests' = Append(requests, [index |-> idx, url |-> b.url])
                   /\ pc' = "urlopen"
                   /\ UNCHANGED <<results, idx, stderr, exitStatus>>
    /\ UNCHANGED <<argv, file, domains, summary, csvFile>>
    /\ UNCHANGED unitVars

\* lines 66-103 and 255: urlopen returns or raises, check_single_domain returns
\* its result and main appends it
UrlopenReturns ==
    /\ pc = "urlopen"
    /\ \E o \in Outcomes :
          results' = Append(results, ClassifyOutcome(domains[idx], inflight[1].url, o))
    /\ inflight' = Tail(inflight)
    /\ idx' = idx + 1
    /\ pc' = "loop"
    /\ UNCHANGED <<argv, file, domains, requests, summary, csvFile, stderr, exitStatus>>
    /\ UNCHANGED unitVars

\* line 257
PrintSummary ==
    /\ pc = "loop"
    /\ LoopDone(idx, domains)
    /\ summary' = <<print_summary(results)>>
    /\ pc' = "write"
    /\ UNCHANGED <<argv, file, domains, idx, inflight, requests, results, csvFile,
                   stderr, exitStatus>>
    /\ UNCHANGED unitVars

\* lines 259-265, and main returns: the path of --output-csv opens (ok) or not
Finish ==
    /\ pc = "write"
    /\ IF argv.output_csv
       THEN \E ok \in BOOLEAN :
               IF ok THEN csvFile' = <<write_csv(results)>> /\ UNCHANGED stderr
               ELSE stderr' = Append(stderr, "Failed to write CSV file")
                    /\ UNCHANGED csvFile
       ELSE UNCHANGED <<csvFile, stderr>>
    /\ exitStatus' = <<0>>
    /\ pc' = "exited"
    /\ UNCHANGED <<argv, file, domains, idx, inflight, requests, results, summary>>
    /\ UNCHANGED unitVars

Next == ParseArgs \/ Load \/ CallCheck \/ UrlopenReturns \/ PrintSummary \/ Finish

Spec == Init /\ [][Next]_vars

---------------------------------------------------------------------------
(* Vocabulary of the properties, stated without the operators above *)

AllSpaces(s) == \A i \in 1..Len(s) : s[i] = SPACE

\* the first character of s that is no space is "#"
CommentLine(s) == \E i \in 1..Len(s) : s[i] = "#" /\ \A j \in 1..(i - 1) : s[j] = SPACE

\* s[i+1..j] is s without the spaces at its two ends
TrimBounds(s, i, j) ==
    /\ \A k \in 1..i : s[k] = SPACE
    /\ \A k \in (j + 1)..Len(s) : s[k] = SPACE
    /\ i < j => s[i + 1] # SPACE /\ s[j] # SPACE

\* r is t without any of the "/" at its end
IsSlashStripOf(r, t) ==
    /\ Len(r) <= Len(t)
    /\ r = SubSeq(t, 1, Len(r))
    /\ \A k \in (Len(r) + 1)..Len(t) : t[k] = SLASH
    /\ r # <<>> => r[Len(r)] # SLASH

\* r is t without its last character when that is a "/", and t otherwise
IsOneSlashCutOf(r, t) ==
    IF t # <<>> /\ t[Len(t)] = SLASH THEN r = SubSeq(t, 1, Len(t) - 1) ELSE r = t

Prefixes(s) == {SubSeq(s, 1, k) : k \in 0..Len(s)}

HasScheme(s) == StartsWith(s, HTTP_PREFIX) \/ StartsWith(s, HTTPS_PREFIX)

\* t is the scheme prefix followed by nothing but "/"
SchemeAndSlashes(t, prefix) ==
    StartsWith(t, prefix) /\ \A k \in (Len(prefix) + 1)..Len(t) : t[k] = SLASH

Opt(sep, part) == IF part # <<>> THEN <<sep>> \o part ELSE <<>>

\* the input file cannot be read, its CSV header lacks the domain column, or
\* none of its lines or cells holds a domain
InputUnusable ==
    \/ file.kind # "ok"
    \/ /\ argv.input_format = "csv"
       /\ \/ \A i \in 1..Len(file.fieldnames) : file.fieldnames[i] # "domain"
          \/ \A i \in 1..Len(file.cells) :
                file.cells[i] = <<>> \/ AllSpaces(file.cells[i][1])
    \/ /\ argv.input_format = "text"
       /\ \A i \in 1..Len(file.lines) :
             AllSpaces(file.lines[i]) \/ CommentLine(file.lines[i])

Crashed == pc = "exited" /\ \E i \in 1..Len(stderr) : stderr[i] = "Traceback"

Returned == res # <<>> /\ ~res[1].raised
Built == probe # <<>> /\ ~probe[1].raised

---------------------------------------------------------------------------
(* Properties *)

\* C1: whenever the input yields a non-empty list of usable domains, main ends
\* having reported a result list with one result per domain, each carrying its
\* domain verbatim, in input order.
C1_OneResultPerDomain ==
    (pc = "exited" /\ domains # <<>>) =>
        /\ summary # <<>>
        /\ Len(results) = Len(domains)
        /\ summary[1].total = Len(domains)
        /\ \A i \in 1..Len(domains) : results[i].domain = domains[i]

\* C2: in every result check_single_domain returns, has_llms_txt is true exactly
\* when http_status is present and 200 <= http_status < 300.
C2_HasIffStatus2xx ==
    Returned =>
        LET r == res[1].result[1]
        IN  r.has_llms_txt <=>
              (r.http_status # <<>> /\ 200 <= r.http_status[1] /\ r.http_status[1] < 300)

C2_Witness ==
    /\ Returned
    /\ res[1].result[1].has_llms_txt
    /\ res[1].result[1].http_status = <<204>>

\* C3: no failure while a domain is checked leaves check_single_domain: the run
\* never ends in an uncaught exception, every domain is checked, and a domain
\* without a response has has_llms_txt false and error set.
C3_FailureIsolated ==
    /\ ~Crashed
    /\ (pc = "exited" /\ domains # <<>>) => idx = Len(domains) + 1
    /\ \A i \in 1..Len(results) :
          results[i].http_status = <<>> =>
              ~results[i].has_llms_txt /\ results[i].error # <<>>

\* C4: for a command line argparse accepts, the exit status is 1 exactly when the
\* input file is missing, unreadable or malformed, or yields no usable domain,
\* and is 0 in every other run.
C4_ExitStatus ==
    (pc = "exited" /\ argv.ok) =>
        IF InputUnusable THEN exitStatus = <<1>> ELSE exitStatus = <<0>>

\* C5: in a run whose input cannot be read, lacks the domain column or yields no
\* usable domain, no request is ever issued, no summary and no CSV is produced,
\* and the process ends with status 1.
C5_NoNetworkOnInputError ==
    InputUnusable =>
        /\ requests = <<>>
        /\ inflight = <<>>
        /\ results = <<>>
        /\ summary = <<>>
        /\ csvFile = <<>>
        /\ (pc = "exited" /\ argv.ok) => exitStatus = <<1>>

C5_Witness ==
    /\ pc = "exited"
    /\ exitStatus = <<1>>
    /\ argv.input_format = "csv"
    /\ file.kind = "ok"
    /\ file.fieldnames = <<"name">>
    /\ \E i \in 1..Len(file.cells) : file.cells[i] = <<<<" ", "a">>>>

\* C6 as claimed: the probe URL is made of the base URL's scheme and netloc and
\* of its path, stripped of trailing "/", followed by "/llms.txt", and of
\* nothing else.
C6_OnlySchemeHostPath ==
    Built =>
        LET p == urlparse(base[1])
        IN  \E r \in Prefixes(p.path) :
              /\ IsSlashStripOf(r, p.path)
              /\ probe[1].url = p.scheme \o <<":", "/", "/">> \o p.netloc \o r \o LLMS_TXT

\* C6 as amended: the probe URL is scheme ":" "//" netloc, then the base path
\* stripped of trailing "/" and followed by "/llms.txt", then ";" params, "?" query
\* and "#" fragment for each of these that the base URL has non-empty; "//" netloc
\* is left out when the netloc is empty and the stripped path begins with "//".
C6_KeepsQueryAndFragment ==
    Built =>
        LET p == urlparse(base[1])
        IN  \E r \in Prefixes(p.path) :
              /\ IsSlashStripOf(r, p.path)
              /\ probe[1].url =
                    p.scheme \o <<":">>
                    \o (IF p.netloc = <<>> /\ StartsWith(r, <<"/", "/">>)
                        THEN <<>> ELSE <<"/", "/">> \o p.netloc)
                    \o r \o LLMS_TXT
                    \o Opt(";", p.params) \o Opt("?", p.query) \o Opt("#", p.fragment)

C6_Witness ==
    /\ Built
    /\ inp = <<"a", "?", "a">>
    /\ probe[1].url = HTTPS_PREFIX \o <<"a">> \o LLMS_TXT \o <<"?", "a">>

\* C7 as claimed: for a non-empty trimmed input t the result is t, after "https://"
\* unless t has a scheme, with exactly one trailing "/" removed, and it starts with
\* "http://" or "https://"; for an empty t it is empty.
C7_OneSlashRemoved ==
    base # <<>> =>
        \E i \in 0..Len(inp) : \E j \in i..Len(inp) :
            /\ TrimBounds(inp, i, j)
            /\ LET t == SubSeq(inp, i + 1, j)
               IN  IF t = <<>> THEN base[1] = <<>>
                   ELSE /\ \E r \in Prefixes(t) :
                             /\ IsOneSlashCutOf(r, t)
                             /\ base[1] = IF HasScheme(t) THEN r ELSE HTTPS_PREFIX \o r
                        /\ HasScheme(base[1])

\* C7 as amended: every trailing "/" of t is removed, and the result starts with
\* "http://" or "https://" unless t is one of these two followed by nothing but
\* "/", when the result is "http:" or "https:".
C7_AllSlashesRemoved ==
    base # <<>> =>
        \E i \in 0..Len(inp) : \E j \in i..Len(inp) :
            /\ TrimBounds(inp, i, j)
            /\ LET t == SubSeq(inp, i + 1, j)
               IN  IF t = <<>> THEN base[1] = <<>>
                   ELSE /\ \E r \in Prefixes(t) :
                             /\ IsSlashStripOf(r, t)
                             /\ base[1] = IF HasScheme(t) THEN r ELSE HTTPS_PREFIX \o r
                        /\ \/ HasScheme(base[1])
                           \/ /\ SchemeAndSlashes(t, HTTP_PREFIX)
                              /\ base[1] = <<"h", "t", "t", "p", ":">>
                           \/ /\ SchemeAndSlashes(t, HTTPS_PREFIX)
                              /\ base[1] = <<"h", "t", "t", "p", "s", ":">>

C7_Witness ==
    /\ inp = <<"a", "/", "/">>
    /\ base = <<HTTPS_PREFIX \o <<"a">>>>

\* C8: in every result with an http_status, error is absent when the status is in
\* [200,300) and present when it is not; and a result with an error has
\* has_llms_txt false.
C8_ErrorVsStatus ==
    Returned =>
        LET r == res[1].result[1]
        IN  /\ r.http_status # <<>> =>
                  IF 200 <= r.http_status[1] /\ r.http_status[1] < 300
                  THEN r.error = <<>> ELSE r.error # <<>>
            /\ r.error # <<>> => ~r.has_llms_txt

C8_Witness ==
    /\ Returned
    /\ res[1].result[1].http_status = <<404>>
    /\ res[1].result[1].error # <<>>

\* C9: the CSV written is the header row followed by one row per result, in the
\* order of the results, holding the result's domain and "yes" or "no" for its
\* has_llms_txt; so it is determined by the result list.
C9_CsvRows ==
    csvFile # <<>> =>
        /\ Len(csvFile[1]) = Len(results) + 1
        /\ csvFile[1][1] = <<"domain", "contains_llms_txt">>
        /\ \A i \in 1..Len(results) :
              /\ csvFile[1][i + 1][1] = results[i].domain
              /\ csvFile[1][i + 1][1] = domains[i]
              /\ csvFile[1][i + 1][2] \in {"yes", "no"}
              /\ csvFile[1][i + 1][2] = "yes" <=> results[i].has_llms_txt

C9_Witness ==
    /\ csvFile # <<>>
    /\ Len(csvFile[1]) = 3
    /\ csvFile[1][2][2] = "no"
    /\ csvFile[1][3][2] = "yes"

\* C10: the k-th call of urlopen is for the k-th domain, at most one request is
\* outstanding, a domain is requested once whatever its outcome, and the summary
\* and the CSV come after the last domain's request has completed.
C10_Sequential ==
    /\ Len(inflight) <= 1
    /\ Len(requests) <= Len(domains)
    /\ \A k \in 1..Len(requests) :
          /\ requests[k].index = k
          /\ requests[k].url = build_llms_url(normalize_domain(domains[k])).url
    /\ Len(results) = Len(requests) - Len(inflight)
    /\ inflight # <<>> => inflight[1] = requests[Len(requests)]
    /\ (summary # <<>> \/ csvFile # <<>>) =>
          /\ inflight = <<>>
          /\ Len(requests) = Len(domains)
          /\ Len(results) = Len(domains)

C10_Witness ==
    /\ summary # <<>>
    /\ Len(requests) = 2
    /\ results[1].error = <<"url_error_reason">>
    /\ results[2].http_status = <<500>>

=============================================================================
